---- MODULE Spec2Model ----
(***************************************************************************)
(* Model of transfer.py: the transfer of .mov files from a Yandex Disk     *)
(* public folder to YouTube, one file at a time, with the completion       *)
(* ledger uploaded_videos.json.                                            *)
(*                                                                         *)
(* Persistent state (survives the process): ledger, disk, youtube, nextId. *)
(* Process state: pc and the locals of main(), download_file(),            *)
(* upload_video() and _resumable_upload().                                 *)
(* History variables (not read by any guard of the program): run, ledger0, *)
(* linkCalls, downloadCalls, uploadCalls, succeeded, uploadFailed,         *)
(* dlSleeps, outerSleeps, innerSleeps, chunkSends, retriableErrs,          *)
(* progressSeen, lastOutcome, quotaHit, kills, killedUnrecorded,           *)
(* rateLimitedFirst, removed, removeFailed, written.                       *)
(***************************************************************************)
EXTENDS Integers, Sequences, FiniteSets, TLC

\* ------------------------------------------------------------------ bounds
MaxRuns == 2          \* runs of main() in one behaviour
MaxProgress == 2      \* chunk sends per _resumable_upload call that report progress only

\* ------------------------------------------------------- program constants
DownloadMaxRetries == 3
DownloadRetryDelay == 5
UploadMaxRetries == 3
UploadRetryDelay == 10
InnerRetryLimit == 3
InnerSleepCap == 60

\* ------------------------------------------------------------ file names
\* A file name is a sequence of characters, so that lower() and endswith()
\* are computed and not assumed.
NameA == <<"a", ".", "m", "o", "v">>
NameB == <<"b", ".", "M", "O", "V">>
NameC == <<"c", ".", "t", "x", "t">>
Names == {NameA, NameB, NameC}

LowerChar(c) ==
    CASE c = "M" -> "m"
      [] c = "O" -> "o"
      [] c = "V" -> "v"
      [] OTHER -> c

Lower(s) == [i \in 1..Len(s) |-> LowerChar(s[i])]

EndsWith(s, suf) ==
    /\ Len(s) >= Len(suf)
    /\ SubSeq(s, Len(s) - Len(suf) + 1, Len(s)) = suf

\* f['name'].lower().endswith('.mov')
IsMov(n) == EndsWith(Lower(n), <<".", "m", "o", "v">>)

RECURSIVE SelectMov(_)
SelectMov(files) ==
    IF files = <<>> THEN <<>>
    ELSE IF IsMov(Head(files))
         THEN <<Head(files)>> \o SelectMov(Tail(files))
         ELSE SelectMov(Tail(files))

Range(s) == {s[i] : i \in 1..Len(s)}

\* Remote listings: a folder holds each name at most once.
Listings ==
    UNION {{s \in [1..n -> Names] : Cardinality(Range(s)) = n} : n \in 0..Cardinality(Names)}

\* --------------------------------------------------------- the ledger file
NoVideos == [n \in {} |-> 0]

FileAbsent == [kind |-> "absent", keys |-> {}, uploaded_files |-> <<>>, videos |-> NoVideos]
\* A file json.load cannot parse: empty, truncated or otherwise not JSON.
FileUnparseable == [kind |-> "unparseable", keys |-> {}, uploaded_files |-> <<>>, videos |-> NoVideos]

\* Files that json.load parses to something save_uploaded_video does not
\* expect: a value that is not an object ('[]', '"x"', '5', 'null'), and an
\* object whose 'uploaded_files' is not a list ('{"uploaded_files": null}').
FileNonDict == [kind |-> "nondict", keys |-> {}, uploaded_files |-> <<>>, videos |-> NoVideos]
FileBadFiles == [kind |-> "dict_badfiles", keys |-> {"uploaded_files"}, uploaded_files |-> <<>>,
                 videos |-> NoVideos]
BadShapeLedgers == {FileNonDict, FileBadFiles}

DictFile(ks, fs, vs) == [kind |-> "dict", keys |-> ks, uploaded_files |-> fs, videos |-> vs]

EmptyData == DictFile({"uploaded_files", "videos"}, <<>>, NoVideos)

Entry(id, t) == [video_id |-> id, uploaded_at |-> t]

\* Names listed in 'uploaded_files' of a ledger file.
LedgerNames(file) ==
    IF file.kind = "dict" /\ "uploaded_files" \in file.keys
    THEN Range(file.uploaded_files)
    ELSE {}

\* Faulty variant of load_uploaded_videos: the ledger is never read.
load_uploaded_videos_noskip(file) == {}

\* load_uploaded_videos(): the set the orchestrator skips.

load_uploaded_videos(file) ==
    IF file.kind = "absent" THEN {}
    ELSE IF file.kind = "unparseable" THEN {}
    \* data.get of a non-object and set(None) raise: caught, set()
    ELSE IF file.kind \in {"nondict", "dict_badfiles"} THEN {}
    ELSE IF "uploaded_files" \in file.keys THEN Range(file.uploaded_files)
    ELSE {}

\* save_uploaded_video(): json.load succeeds and the code after the try block
\* raises: 'in' / item assignment on a non-object, .append on a non-list.
SaveRaises(file) == file.kind \in {"nondict", "dict_badfiles"}

\* Faulty variant of SavedData: the name is listed and no video is recorded.
SavedData_listonly(file, filename, video_id, t) ==
    LET data  == IF file.kind = "dict" THEN file ELSE EmptyData
        files == IF "uploaded_files" \in data.keys THEN data.uploaded_files ELSE <<>>
        vids  == IF "videos" \in data.keys THEN data.videos ELSE NoVideos
    IN DictFile(data.keys \cup {"uploaded_files", "videos"}, Append(files, filename), vids)

\* Faulty variant of SavedData: the file on disk is not merged in.
SavedData_overwrite(file, filename, video_id, t) ==
    DictFile({"uploaded_files", "videos"}, <<filename>>,
             [n \in {filename} |-> Entry(video_id, t)])

\* save_uploaded_video(): the data dumped for (filename, video_id) at time t,
\* given the file found on disk.
SavedData(file, filename, video_id, t) ==
    LET data  == IF file.kind = "dict" THEN file ELSE EmptyData
        files == IF "uploaded_files" \in data.keys THEN data.uploaded_files ELSE <<>>
        vids  == IF "videos" \in data.keys THEN data.videos ELSE NoVideos
    IN DictFile(data.keys \cup {"uploaded_files", "videos"},
                Append(files, filename),
                [n \in (DOMAIN vids) \cup {filename} |->
                    IF n = filename THEN Entry(video_id, t) ELSE vids[n]])

\* Number of occurrences of x in the sequence s.
RECURSIVE Count(_, _)
Count(x, s) ==
    IF s = <<>> THEN 0
    ELSE (IF Head(s) = x THEN 1 ELSE 0) + Count(x, Tail(s))

\* ------------------------------------------------------------- retry maths
RECURSIVE Pow2(_)
Pow2(n) == IF n = 0 THEN 1 ELSE 2 * Pow2(n - 1)

Min(a, b) == IF a < b THEN a ELSE b

\* Faulty variant of sleep_seconds: linear instead of exponential.
sleep_seconds_linear(retry) == Min(2 * retry, InnerSleepCap)

\* _resumable_upload: sleep_seconds = min(2 ** retry, 60)
sleep_seconds(retry) == Min(Pow2(retry), InnerSleepCap)

\* Faulty variant of NoLongerRetrying: gives up one error late.
NoLongerRetrying_late(retry) == retry > InnerRetryLimit + 1

\* Faulty variant of NoLongerRetrying: gives up one error early.
NoLongerRetrying_early(retry) == retry >= InnerRetryLimit

\* _resumable_upload: 'if retry > 3: raise'
NoLongerRetrying(retry) == retry > InnerRetryLimit

\* upload_video: retry_delay * (attempt + 1), attempt counted from 0
UploadDelay(attempt) == UploadRetryDelay * (attempt + 1)

\* Faulty variant of DownloadDelay: the same delay after every attempt.
DownloadDelay_flat(attempt) == DownloadRetryDelay

\* download_file: retry_delay * (attempt + 1), attempt counted from 0
DownloadDelay(attempt) == DownloadRetryDelay * (attempt + 1)

\* Faulty variant of IsQuota: the quota reason is not recognised.
IsQuota_never(reason) == FALSE

\* upload_video: error_reason == 'quotaExceeded'
IsQuota(reason) == reason = "quotaExceeded"

\* ------------------------------------------------------------------ state
VARIABLES
    ledger,             \* content of uploaded_videos.json
    disk,               \* names of the files present in the working directory
    youtube,            \* per name: number of videos the platform has created
    nextId,             \* the id the platform gives to the next video
    pc,                 \* position of the process
    exitCode,           \* exit status of the last ended process (-1: none yet)
    uploaded_files,     \* main: set returned by load_uploaded_videos()
    mov_files,          \* main: the filtered listing
    idx,                \* main: position of the for loop in mov_files
    successful_uploads, \* main
    failed_uploads,     \* main
    dlAttempt,          \* download_file: attempt (from 0)
    attempt,            \* upload_video: attempt (from 0)
    retry,              \* _resumable_upload: retry
    error,              \* _resumable_upload: error is not None
    innerResult,        \* how the running/last _resumable_upload call ended
    video_id,           \* id returned by the platform for the current file
    data,               \* save_uploaded_video: the data about to be dumped
    run,                \* history: number of runs started
    ledger0,            \* history: ledger file when the current run started
    linkCalls,          \* history: names get_download_link was called for, this run
    downloadCalls,      \* history: names download_file was called for, this run
    uploadCalls,        \* history: names upload_video was called for, this run
    succeeded,          \* history: names upload_video returned an id for, this run
    uploadFailed,       \* history: names upload_video returned None for, this run
    removed,            \* history: names whose local file this run deleted
    dlSleeps,           \* history: sleeps of the current download_file call
    outerSleeps,        \* history: sleeps of the current upload_video call
    innerSleeps,        \* history: sleeps of the current _resumable_upload call
    chunkSends,         \* history: next_chunk calls of the current _resumable_upload call
    retriableErrs,      \* history: 5xx/transport errors of the current _resumable_upload call
    progressSeen,       \* history: progress-only chunk results of the current call
    lastOutcome,        \* history: outcome of the last next_chunk call
    quotaHit,           \* history: a quota error was received in this run
    rateLimitedFirst,   \* history: the run has one candidate, and the 1st attempt of
                        \*          its upload_video call ended with rateLimitExceeded
    removeFailed,       \* history: names whose os.remove raised, this run
    written,            \* history: names whose local file this run created
    kills,              \* history: number of runs killed
    killedUnrecorded    \* history: a run was killed after an upload succeeded
                        \*          and before its ledger write was complete

persistVars == <<ledger, disk, youtube, nextId>>
killVars == <<kills, killedUnrecorded>>
mainVars == <<uploaded_files, mov_files, idx, successful_uploads, failed_uploads>>
dlVars == <<dlAttempt, dlSleeps>>
outerVars == <<attempt, outerSleeps, rateLimitedFirst>>
innerVars == <<retry, error, innerResult, innerSleeps, chunkSends, retriableErrs,
               progressSeen, lastOutcome>>
callVars == <<linkCalls, downloadCalls, uploadCalls, succeeded, uploadFailed, removed,
              removeFailed, written>>
vars == <<ledger, disk, youtube, nextId, pc, exitCode, uploaded_files, mov_files, idx,
          successful_uploads, failed_uploads, dlAttempt, attempt, retry, error,
          innerResult, video_id, data, run, ledger0, linkCalls, downloadCalls,
          uploadCalls, succeeded, uploadFailed, removed, dlSleeps, outerSleeps,
          innerSleeps, chunkSends, retriableErrs, progressSeen, lastOutcome,
          quotaHit, rateLimitedFirst, removeFailed, written, killVars>>

MovNames == {n \in Names : IsMov(n)}

\* Ledgers a first run can find: no file, an unparseable file, '{}', or the
\* ledger written by earlier runs for some of the names (ids 1.., time 0).
EarlierUploads == {<<>>, <<NameA>>, <<NameB>>, <<NameA, NameB>>}

LedgerOf(fs) ==
    DictFile({"uploaded_files", "videos"}, fs,
             [n \in Range(fs) |-> Entry(CHOOSE i \in 1..Len(fs) : fs[i] = n, 0)])

InitLedgers ==
    {FileAbsent, FileUnparseable, DictFile({}, <<>>, NoVideos)}
        \cup {LedgerOf(fs) : fs \in EarlierUploads \ {<<>>}}

\* A process is running.
Running == pc \notin {"idle", "done", "exited", "crashed", "killed"}

\* The filename the for loop of main is at.
cur == mov_files[idx]

InitWith(ledgers) ==
    /\ ledger \in ledgers
    /\ disk = {}
    /\ youtube = [n \in Names |-> IF n \in LedgerNames(ledger) THEN 1 ELSE 0]
    /\ nextId = Cardinality(LedgerNames(ledger)) + 1
    /\ pc = "idle"
    /\ exitCode = -1
    /\ uploaded_files = {}
    /\ mov_files = <<>>
    /\ idx = 0
    /\ successful_uploads = 0
    /\ failed_uploads = 0
    /\ dlAttempt = 0
    /\ attempt = 0
    /\ retry = 0
    /\ error = FALSE
    /\ innerResult = "none"
    /\ video_id = 0
    /\ data = FileAbsent
    /\ run = 0
    /\ ledger0 = ledger
    /\ linkCalls = {}
    /\ downloadCalls = {}
    /\ uploadCalls = {}
    /\ succeeded = {}
    /\ uploadFailed = {}
    /\ removed = {}
    /\ removeFailed = {}
    /\ written = {}
    /\ rateLimitedFirst = FALSE
    /\ dlSleeps = <<>>
    /\ outerSleeps = <<>>
    /\ innerSleeps = <<>>
    /\ chunkSends = 0
    /\ retriableErrs = 0
    /\ progressSeen = 0
    /\ lastOutcome = "none"
    /\ quotaHit = FALSE
    /\ kills = 0
    /\ killedUnrecorded = FALSE

Init == InitWith(InitLedgers)

\* As Init, and the ledger file may also have been edited into an unexpected
\* shape.
InitAnyLedger == InitWith(InitLedgers \cup BadShapeLedgers)

\* The files of the listing that the run does not skip.
Candidates == {f \in Range(mov_files) : f \notin uploaded_files}

\* Locals of a fresh process and the per-run history.
FreshProcess ==
    /\ uploaded_files' = {}
    /\ mov_files' = <<>>
    /\ idx' = 0
    /\ successful_uploads' = 0
    /\ failed_uploads' = 0
    /\ dlAttempt' = 0
    /\ attempt' = 0
    /\ retry' = 0
    /\ error' = FALSE
    /\ innerResult' = "none"
    /\ video_id' = 0
    /\ data' = FileAbsent
    /\ linkCalls' = {}
    /\ downloadCalls' = {}
    /\ uploadCalls' = {}
    /\ succeeded' = {}
    /\ uploadFailed' = {}
    /\ removed' = {}
    /\ removeFailed' = {}
    /\ written' = {}
    /\ rateLimitedFirst' = FALSE
    /\ dlSleeps' = <<>>
    /\ outerSleeps' = <<>>
    /\ innerSleeps' = <<>>
    /\ chunkSends' = 0
    /\ retriableErrs' = 0
    /\ progressSeen' = 0
    /\ lastOutcome' = "none"
    /\ quotaHit' = FALSE

\* ---------------------------------------------------------------- main()
\* main, client initialisation: YandexDiskClient(), YouTubeUploader().
\* 'nosecret': _authenticate calls sys.exit(1); 'initfail': an exception
\* that main answers with sys.exit(1).
StartRun ==
    /\ ~Running
    /\ run < MaxRuns
    /\ run' = run + 1
    /\ ledger0' = ledger
    /\ FreshProcess
    /\ \E outcome \in {"ok", "nosecret", "initfail"} :
         IF outcome = "ok"
         THEN pc' = "load" /\ exitCode' = -1
         ELSE pc' = "exited" /\ exitCode' = 1
    /\ UNCHANGED <<persistVars, killVars>>

\* main: uploaded_files = load_uploaded_videos()
LoadLedger ==
    /\ pc = "load"
    /\ uploaded_files' = load_uploaded_videos(ledger)
    /\ pc' = "list"
    /\ UNCHANGED <<persistVars, exitCode, mov_files, idx, successful_uploads,
                   failed_uploads, dlVars, outerVars, innerVars, video_id, data,
                   run, ledger0, callVars, quotaHit, killVars>>

\* main: list_files(), the .mov filter and the empty-list return.
ListFiles ==
    /\ pc = "list"
    /\ \/ \* list_files raised: logged, return
          /\ pc' = "done"
          /\ exitCode' = 0
          /\ UNCHANGED <<mov_files, idx>>
       \/ \E files \in Listings :
            /\ mov_files' = SelectMov(files)
            /\ IF mov_files' = <<>>
               THEN pc' = "done" /\ exitCode' = 0 /\ idx' = idx
               ELSE pc' = "loop" /\ exitCode' = exitCode /\ idx' = 1
    /\ UNCHANGED <<persistVars, uploaded_files, successful_uploads, failed_uploads,
                   dlVars, outerVars, innerVars, video_id, data, run, ledger0,
                   callVars, quotaHit, killVars>>

\* main: the head of 'for file_info in mov_files' with the ledger skip; past
\* the last file the summary is logged and main returns.
ForNext ==
    /\ pc = "loop"
    /\ IF idx > Len(mov_files)
       THEN pc' = "done" /\ exitCode' = 0 /\ idx' = idx
       ELSE IF cur \in uploaded_files
            THEN pc' = "loop" /\ exitCode' = exitCode /\ idx' = idx + 1
            ELSE pc' = "link" /\ exitCode' = exitCode /\ idx' = idx
    /\ UNCHANGED <<persistVars, uploaded_files, mov_files, successful_uploads,
                   failed_uploads, dlVars, outerVars, innerVars, video_id, data,
                   run, ledger0, callVars, quotaHit, killVars>>

\* main: get_download_link(file_path); any exception fails this file only.
GetLink ==
    /\ pc = "link"
    /\ linkCalls' = linkCalls \cup {cur}
    /\ \/ /\ failed_uploads' = failed_uploads + 1
          /\ idx' = idx + 1
          /\ pc' = "loop"
          /\ UNCHANGED <<downloadCalls, dlVars>>
       \/ \* the link is resolved and download_file is called
          /\ downloadCalls' = downloadCalls \cup {cur}
          /\ dlAttempt' = 0
          /\ dlSleeps' = <<>>
          /\ pc' = "download"
          /\ UNCHANGED <<failed_uploads, idx>>
    /\ UNCHANGED <<persistVars, exitCode, uploaded_files, mov_files,
                   successful_uploads, outerVars, innerVars, video_id, data, run,
                   ledger0, uploadCalls, succeeded, uploadFailed, removed,
                   removeFailed, written, quotaHit, killVars>>

\* Locals of a fresh _resumable_upload call.
NewInnerCall ==
    /\ retry' = 0
    /\ error' = FALSE
    /\ innerResult' = "running"
    /\ innerSleeps' = <<>>
    /\ chunkSends' = 0
    /\ retriableErrs' = 0
    /\ progressSeen' = 0
    /\ lastOutcome' = "none"

\* ------------------------------------------------------- download_file()
\* One pass of 'for attempt in range(max_retries)' of download_file, with
\* main's handling of the returned value.
\*   ok       the file is written, download_file returns True and main calls
\*            upload_video
\*   neterr   RequestException before the local file is opened
\*   partial  RequestException while streaming: the local file exists
\*   oserror  open()/write() raises OSError: caught nowhere
DownloadOutcomes == {"ok", "neterr", "partial", "oserror"}

DownloadAttempt ==
    /\ pc = "download"
    /\ \E outcome \in DownloadOutcomes :
       CASE outcome = "ok" ->
                /\ disk' = disk \cup {cur}
                /\ written' = written \cup {cur}
                /\ uploadCalls' = uploadCalls \cup {cur}
                /\ attempt' = 0
                /\ outerSleeps' = <<>>
                /\ rateLimitedFirst' = FALSE
                /\ NewInnerCall
                /\ pc' = "chunk"
                /\ UNCHANGED <<exitCode, idx, failed_uploads, dlAttempt, dlSleeps>>
           [] outcome \in {"neterr", "partial"} ->
                /\ disk' = IF outcome = "partial" THEN disk \cup {cur} ELSE disk
                /\ written' = IF outcome = "partial" THEN written \cup {cur} ELSE written
                /\ IF dlAttempt < DownloadMaxRetries - 1
                   THEN /\ dlSleeps' = Append(dlSleeps, DownloadDelay(dlAttempt))
                        /\ dlAttempt' = dlAttempt + 1
                        /\ pc' = "download"
                        /\ UNCHANGED <<idx, failed_uploads>>
                   ELSE \* return False; main: failed_uploads += 1; continue
                        /\ failed_uploads' = failed_uploads + 1
                        /\ idx' = idx + 1
                        /\ pc' = "loop"
                        /\ UNCHANGED <<dlAttempt, dlSleeps>>
                /\ UNCHANGED <<exitCode, uploadCalls, outerVars, innerVars>>
           [] outcome = "oserror" ->
                /\ pc' = "crashed"
                /\ exitCode' = 1
                /\ UNCHANGED <<disk, written, idx, failed_uploads, dlAttempt,
                               dlSleeps, uploadCalls, outerVars, innerVars>>
    /\ UNCHANGED <<ledger, youtube, nextId, uploaded_files, mov_files,
                   successful_uploads, video_id, data, run, ledger0, linkCalls,
                   downloadCalls, succeeded, uploadFailed, removed, removeFailed,
                   quotaHit, killVars>>

\* --------------------------------------------------- _resumable_upload()
\* Results of insert_request.next_chunk():
\*   id        final response with 'id'
\*   noid      final response without 'id'
\*   progress  (status, None): more chunks to send
\*   e5xx      HttpError with status 500, 502, 503 or 504
\*   transport any other exception of next_chunk
\*   the rest  HttpError with another status, named by what upload_video
\*             finds in its body: the reason, or 'malformed' for a body
\*             that json.loads or the .get chain cannot read
HttpReasons == {"quotaExceeded", "rateLimitExceeded", "other", "malformed"}
ChunkOutcomes == {"id", "noid", "progress", "e5xx", "transport"} \cup HttpReasons

\* Faulty variant of RaisesHttp: a rate-limit error is retried in the loop.
RaisesHttp_retryRateLimit(outcome) == outcome \in HttpReasons \ {"rateLimitExceeded"}

\* _resumable_upload, 'except HttpError': a status outside
\* [500, 502, 503, 504] is raised again.
RaisesHttp(outcome) == outcome \in HttpReasons

\* One pass of 'while response is None' of _resumable_upload.
NextChunk ==
    /\ pc = "chunk"
    /\ \E outcome \in ChunkOutcomes :
         /\ outcome = "progress" => progressSeen < MaxProgress
         /\ chunkSends' = chunkSends + 1
         /\ lastOutcome' = outcome
         /\ progressSeen' = progressSeen + (IF outcome = "progress" THEN 1 ELSE 0)
         /\ retriableErrs' = retriableErrs
                               + (IF outcome \in {"e5xx", "transport"} THEN 1 ELSE 0)
         /\ quotaHit' = (quotaHit \/ outcome = "quotaExceeded")
         /\ CASE outcome = "id" ->
                   \* return response
                   /\ innerResult' = "id"
                   /\ video_id' = nextId
                   /\ nextId' = nextId + 1
                   /\ youtube' = [youtube EXCEPT ![cur] = @ + 1]
                   /\ pc' = "outer"
                   /\ UNCHANGED <<retry, error, innerSleeps>>
              [] RaisesHttp(outcome) ->
                   \* except HttpError: status not in [500, 502, 503, 504]: raise
                   /\ innerResult' = outcome
                   /\ pc' = "outer"
                   /\ UNCHANGED <<retry, error, innerSleeps, video_id, nextId, youtube>>
              [] OTHER ->
                   \* 'raise Exception(unexpected response)' of the noid case is
                   \* caught by 'except Exception' like a transport error;
                   \* error is never reset to None
                   /\ error' = (error \/ outcome # "progress")
                   /\ IF error'
                      THEN /\ retry' = retry + 1
                           /\ IF NoLongerRetrying(retry')
                              THEN /\ innerResult' = "nolonger"
                                   /\ pc' = "outer"
                                   /\ UNCHANGED innerSleeps
                              ELSE /\ innerSleeps' = Append(innerSleeps, sleep_seconds(retry'))
                                   /\ IF outcome = "noid"
                                      THEN \* response is not None: the loop ends
                                           \* and the function returns None
                                           /\ innerResult' = "returned_none"
                                           /\ pc' = "outer"
                                      ELSE /\ innerResult' = "running"
                                           /\ pc' = "chunk"
                      ELSE /\ pc' = "chunk"
                           /\ UNCHANGED <<retry, innerResult, innerSleeps>>
                   /\ UNCHANGED <<video_id, nextId, youtube>>
    /\ UNCHANGED <<ledger, disk, exitCode, mainVars, dlVars, outerVars, data, run,
                   ledger0, callVars, killVars>>

\* -------------------------------------------------------- upload_video()
\* What upload_video does with the end of a _resumable_upload call: return
\* the id, exit on quota, raise on an unreadable error body, or retry.
UploadHandle ==
    /\ pc = "outer"
    /\ CASE innerResult = "id" ->
              /\ succeeded' = succeeded \cup {cur}
              /\ pc' = "record"
              /\ UNCHANGED <<exitCode, outerVars, innerVars, uploadFailed>>
         [] innerResult = "malformed" ->
              \* json.loads / .get / [0] raises inside the except clause
              /\ pc' = "crashed"
              /\ exitCode' = 1
              /\ UNCHANGED <<outerVars, innerVars, succeeded, uploadFailed>>
         [] innerResult \in HttpReasons \ {"malformed"} /\ IsQuota(innerResult) ->
              \* sys.exit(1)
              /\ pc' = "exited"
              /\ exitCode' = 1
              /\ UNCHANGED <<outerVars, innerVars, succeeded, uploadFailed>>
         [] OTHER ->
              \* rateLimitExceeded, other reasons, and 'except Exception' for
              \* the 'no longer retrying' error and for response['id'] of None
              IF attempt < UploadMaxRetries - 1
              THEN /\ outerSleeps' = Append(outerSleeps, UploadDelay(attempt))
                   /\ attempt' = attempt + 1
                   /\ rateLimitedFirst' = (rateLimitedFirst
                          \/ (/\ attempt = 0
                              /\ innerResult = "rateLimitExceeded"
                              /\ Cardinality(Candidates) = 1))
                   /\ NewInnerCall
                   /\ pc' = "chunk"
                   /\ UNCHANGED <<exitCode, succeeded, uploadFailed>>
              ELSE \* return None
                   /\ uploadFailed' = uploadFailed \cup {cur}
                   /\ pc' = "failed"
                   /\ UNCHANGED <<exitCode, outerVars, innerVars, succeeded>>
    /\ UNCHANGED <<persistVars, mainVars, dlVars, video_id, data, run, ledger0,
                   linkCalls, downloadCalls, uploadCalls, removed, removeFailed,
                   written, quotaHit, killVars>>

\* ------------------------------------------------- save_uploaded_video()
\* save_uploaded_video up to open(UPLOADED_VIDEOS_LOG, 'w'): the file is
\* read, the entry is merged in memory, and opening for writing truncates
\* the file.
SaveOpen ==
    /\ pc = "record"
    /\ IF SaveRaises(ledger)
       THEN \* TypeError / AttributeError before the file is opened: caught nowhere
            /\ pc' = "crashed"
            /\ exitCode' = 1
            /\ UNCHANGED <<ledger, data>>
       ELSE /\ data' = SavedData(ledger, cur, video_id, run)
            /\ ledger' = FileUnparseable
            /\ pc' = "saving"
            /\ exitCode' = exitCode
    /\ UNCHANGED <<disk, youtube, nextId, mainVars, dlVars, outerVars,
                   innerVars, video_id, run, ledger0, callVars, quotaHit,
                   killVars>>

\* Faulty variant of SaveDump: the success is not counted.
SaveDump_nocount ==
    /\ pc = "saving"
    /\ ledger' = data
    /\ pc' = "remove"
    /\ UNCHANGED <<disk, youtube, nextId, exitCode, mainVars, dlVars, outerVars,
                   innerVars, video_id, data, run, ledger0, callVars, quotaHit,
                   killVars>>

\* json.dump(data, f) and main's successful_uploads += 1.
SaveDump ==
    /\ pc = "saving"
    /\ ledger' = data
    /\ successful_uploads' = successful_uploads + 1
    /\ pc' = "remove"
    /\ UNCHANGED <<disk, youtube, nextId, exitCode, uploaded_files, mov_files, idx,
                   failed_uploads, dlVars, outerVars, innerVars, video_id, data,
                   run, ledger0, callVars, quotaHit, killVars>>

\* Faulty variant of RemoveLocal: the local file is never deleted.
RemoveLocal_keep ==
    /\ pc = "remove"
    /\ removed' = removed \cup {cur}
    /\ idx' = idx + 1
    /\ pc' = "loop"
    /\ UNCHANGED <<persistVars, exitCode, uploaded_files, mov_files,
                   successful_uploads, failed_uploads, dlVars, outerVars, innerVars,
                   video_id, data, run, ledger0, linkCalls, downloadCalls,
                   uploadCalls, succeeded, uploadFailed, removeFailed, written,
                   quotaHit, killVars>>

\* main: os.remove(local_path); a failure is logged only.
RemoveLocal ==
    /\ pc = "remove"
    /\ \/ disk' = disk \ {cur} /\ removed' = removed \cup {cur} /\ UNCHANGED removeFailed
       \/ removeFailed' = removeFailed \cup {cur} /\ UNCHANGED <<disk, removed>>
    /\ idx' = idx + 1
    /\ pc' = "loop"
    /\ UNCHANGED <<ledger, youtube, nextId, exitCode, uploaded_files, mov_files,
                   successful_uploads, failed_uploads, dlVars, outerVars, innerVars,
                   video_id, data, run, ledger0, linkCalls, downloadCalls,
                   uploadCalls, succeeded, uploadFailed, written, quotaHit,
                   killVars>>

\* Faulty variant of UploadFailed: the local file is deleted on failure too.
UploadFailed_remove ==
    /\ pc = "failed"
    /\ failed_uploads' = failed_uploads + 1
    /\ idx' = idx + 1
    /\ pc' = "loop"
    /\ disk' = disk \ {cur}
    /\ UNCHANGED <<ledger, youtube, nextId, exitCode, uploaded_files, mov_files,
                   successful_uploads, dlVars, outerVars, innerVars, video_id, data,
                   run, ledger0, callVars, quotaHit, killVars>>

\* Faulty variant of UploadFailed: the failure is recorded in the ledger.
UploadFailed_record ==
    /\ pc = "failed"
    /\ failed_uploads' = failed_uploads + 1
    /\ idx' = idx + 1
    /\ pc' = "loop"
    /\ ledger' = SavedData(ledger, cur, video_id, run)
    /\ UNCHANGED <<disk, youtube, nextId, exitCode, uploaded_files, mov_files,
                   successful_uploads, dlVars, outerVars, innerVars, video_id, data,
                   run, ledger0, callVars, quotaHit, killVars>>

\* Faulty variant of UploadFailed: the failure is not counted.
UploadFailed_nocount ==
    /\ pc = "failed"
    /\ idx' = idx + 1
    /\ pc' = "loop"
    /\ UNCHANGED <<persistVars, exitCode, uploaded_files, mov_files,
                   successful_uploads, failed_uploads, dlVars, outerVars, innerVars,
                   video_id, data, run, ledger0, callVars, quotaHit, killVars>>

\* main, the else branch of 'if video_id': the local file is kept.
UploadFailed ==
    /\ pc = "failed"
    /\ failed_uploads' = failed_uploads + 1
    /\ idx' = idx + 1
    /\ pc' = "loop"
    /\ UNCHANGED <<persistVars, exitCode, uploaded_files, mov_files,
                   successful_uploads, dlVars, outerVars, innerVars, video_id, data,
                   run, ledger0, callVars, quotaHit, killVars>>

\* ------------------------------------------------------------ interruption
\* The process is killed at its current position. A kill during a download
\* may leave the partly written local file.
Kill ==
    /\ Running
    /\ pc' = "killed"
    /\ exitCode' = 137
    /\ kills' = kills + 1
    /\ killedUnrecorded' = (killedUnrecorded
                              \/ (pc = "outer" /\ innerResult = "id")
                              \/ pc \in {"record", "saving"})
    /\ \/ UNCHANGED <<disk, written>>
       \/ /\ pc = "download"
          /\ disk' = disk \cup {cur}
          /\ written' = written \cup {cur}
    /\ UNCHANGED <<ledger, youtube, nextId, mainVars, dlVars, outerVars, innerVars,
                   video_id, data, run, ledger0, linkCalls, downloadCalls,
                   uploadCalls, succeeded, uploadFailed, removed, removeFailed,
                   quotaHit>>

\* ---------------------------------------------------------- specifications
Next ==
    \/ StartRun
    \/ LoadLedger
    \/ ListFiles
    \/ ForNext
    \/ GetLink
    \/ DownloadAttempt
    \/ NextChunk
    \/ UploadHandle
    \/ SaveOpen
    \/ SaveDump
    \/ RemoveLocal
    \/ UploadFailed

\* Runs that end on their own: summary, sys.exit or an uncaught exception.
Spec == Init /\ [][Next]_vars

NextKill == Next \/ Kill

\* Runs that may also be killed at any step.
SpecKill == Init /\ [][NextKill]_vars

\* Runs that start from any ledger file, the unexpected shapes included.
SpecAnyLedger == InitAnyLedger /\ [][Next]_vars

\* One run of main() in an environment where every call returns or fails:
\* every step that can be taken is eventually taken.
StartOnce == run = 0 /\ StartRun

NextOnce ==
    \/ StartOnce
    \/ LoadLedger
    \/ ListFiles
    \/ ForNext
    \/ GetLink
    \/ DownloadAttempt
    \/ NextChunk
    \/ UploadHandle
    \/ SaveOpen
    \/ SaveDump
    \/ RemoveLocal
    \/ UploadFailed

SpecFairOnce == Init /\ [][NextOnce]_vars /\ WF_vars(NextOnce)

\* ------------------------------------------------------------ properties
\* The last run has ended (summary/return, sys.exit, uncaught exception or kill).
RunEnded == run > 0 /\ ~Running

\* The ledger file holds an entry for f.
HasEntry(file, f) ==
    file.kind = "dict" /\ (f \in Range(file.uploaded_files) \/ f \in DOMAIN file.videos)

\* C1: a run never calls get_download_link, download_file or upload_video
\* for a filename that was in 'uploaded_files' of the ledger when the run
\* started.
C1_SkipIdempotence ==
    (linkCalls \cup downloadCalls \cup uploadCalls) \cap LedgerNames(ledger0) = {}

\* A run that met a ledgered .mov file in the listing, passed it and uploaded
\* another file.
C1_Witness ==
    /\ pc = "done"
    /\ uploadCalls # {}
    /\ \E i \in 1..Len(mov_files) :
         /\ mov_files[i] \in LedgerNames(ledger0)
         /\ \E j \in (i + 1)..Len(mov_files) : mov_files[j] \in uploadCalls

\* C2: when a run has ended, every filename uploaded in the run is once in
\* uploaded_files and once in videos, and every entry the ledger held before
\* the run is still there, in place, with the same video id and timestamp.
C2_LoadMergeWrite ==
    RunEnded =>
        /\ \A f \in succeeded :
             /\ ledger.kind = "dict"
             /\ Count(f, ledger.uploaded_files) = 1
             /\ f \in DOMAIN ledger.videos
        /\ ledger0.kind = "dict" =>
             /\ ledger.kind = "dict"
             /\ Len(ledger.uploaded_files) >= Len(ledger0.uploaded_files)
             /\ \A i \in 1..Len(ledger0.uploaded_files) :
                  ledger.uploaded_files[i] = ledger0.uploaded_files[i]
             /\ \A n \in DOMAIN ledger0.videos :
                  /\ n \in DOMAIN ledger.videos
                  /\ ledger.videos[n] = ledger0.videos[n]

\* A run that started with a ledger entry and ended after a successful upload.
C2_Witness ==
    /\ RunEnded
    /\ succeeded # {}
    /\ LedgerNames(ledger0) # {}
    /\ ledger # ledger0

\* C3: a candidate whose upload_video call returned None keeps its local file
\* and gains no ledger entry, up to and including the end of the run.
C3_FailedUploadKeepsFile ==
    \A f \in uploadFailed :
        /\ f \in disk
        /\ ~HasEntry(ledger, f)

\* A run that ended after one upload failed and a later one succeeded and
\* had its local file deleted.
C3_Witness ==
    /\ RunEnded
    /\ uploadFailed # {}
    /\ removed # {}

C5_LedgerIffUploaded ==
    /\ (pc = "loop" \/ ~Running) =>
          \A f \in Names : (f \in LedgerNames(ledger)) <=> (youtube[f] > 0)
    /\ pc \in {"record", "saving"} =>
          /\ cur \in succeeded
          /\ innerResult = "id"
          /\ youtube[cur] > 0

\* Between two candidates of one run: the first was uploaded, recorded, and the
\* second failed.
C5_Witness ==
    /\ pc = "loop"
    /\ idx = 3
    /\ mov_files[1] \in succeeded
    /\ mov_files[1] \in LedgerNames(ledger)
    /\ mov_files[2] \in uploadFailed
    /\ mov_files[2] \notin LedgerNames(ledger)

\* C6: a quota-exceeded error ends the process at once with exit code 1: the
\* chunk send that got it causes no sleep and no retry, upload_video's next
\* step is the exit, which changes neither the ledger nor the local files nor
\* the attempt count, and after the exit nothing of this run happens: no later
\* candidate is processed, the current file has no ledger entry and its local
\* file is there.
C6_FatalQuota ==
    /\ [](quotaHit =>
            /\ pc \in {"outer", "exited"}
            /\ pc = "exited" => exitCode = 1
            /\ cur \in disk
            /\ ~HasEntry(ledger, cur)
            /\ \A i \in (idx + 1)..Len(mov_files) :
                 mov_files[i] \notin linkCalls \cup downloadCalls \cup uploadCalls)
    /\ [][/\ (~quotaHit /\ quotaHit') =>
                /\ pc' = "outer"
                /\ UNCHANGED <<retry, innerSleeps, outerSleeps, attempt>>
          /\ (quotaHit /\ pc = "outer") =>
                /\ pc' = "exited"
                /\ exitCode' = 1
                /\ UNCHANGED <<persistVars, mainVars, outerVars, innerVars, callVars>>
          /\ (quotaHit /\ pc = "exited") => run' = run + 1]_vars

\* The process has exited on a quota error of the second outer attempt of the
\* first of two candidates.
C6_Witness ==
    /\ pc = "exited"
    /\ exitCode = 1
    /\ quotaHit
    /\ attempt = 1
    /\ idx = 1
    /\ Len(mov_files) = 2

\* C7 as stated: a run whose clients were initialised is ended only by the
\* summary (after every candidate), by the return after a failed or empty
\* listing, or by the quota exit; no failure of link resolution, download or
\* upload aborts it.
C7_PerFileFailureIsolation ==
    (RunEnded /\ ~quotaHit /\ mov_files # <<>>) =>
        /\ pc = "done"
        /\ exitCode = 0
        /\ idx = Len(mov_files) + 1

\* C8: in a _resumable_upload call whose chunk sends so far all failed with a
\* retriable error, the sleeps after the 1st, 2nd and 3rd error are 2, 4, 8 and
\* the call goes on sending; the 4th error adds no sleep and ends the call with
\* the 'no longer retrying' error.
C8_InnerBackoff ==
    (pc \in {"chunk", "outer"} /\ chunkSends = retriableErrs) =>
        /\ retriableErrs <= 4
        /\ retriableErrs <= 3 =>
             /\ innerSleeps = SubSeq(<<2, 4, 8>>, 1, retriableErrs)
             /\ pc = "chunk"
             /\ innerResult = "running"
        /\ retriableErrs = 4 =>
             /\ innerSleeps = <<2, 4, 8>>
             /\ pc = "outer"
             /\ innerResult = "nolonger"

\* A call ended by its 4th consecutive retriable error.
C8_Witness ==
    /\ pc = "outer"
    /\ chunkSends = 4
    /\ retriableErrs = 4
    /\ innerResult = "nolonger"

\* C9 as stated: a final response without 'id' fails the upload of the file
\* with no sleep, no increment of the retry counter, no further chunk send and
\* no further upload attempt; the file counts as failed and the run goes on.
C9_ProtocolViolationNotRetried ==
    [][/\ (pc = "chunk" /\ chunkSends' = chunkSends + 1 /\ lastOutcome' = "noid") =>
            /\ retry' = retry
            /\ innerSleeps' = innerSleeps
            /\ pc' = "outer"
       /\ (pc = "outer" /\ lastOutcome = "noid") =>
            /\ pc' = "failed"
            /\ outerSleeps' = outerSleeps
            /\ attempt' = attempt]_vars

\* C10 as stated: upload_video makes at most 3 attempts; a failed attempt
\* i = 1, 2 that ended with a rate-limit or another non-quota platform error
\* is followed by a sleep of 10*i and attempt i+1; the 3rd failed attempt is
\* followed by no sleep and the return of None; the call never raises.
C10_OuterRetry ==
    /\ [](attempt <= 2 /\ Len(outerSleeps) <= 2)
    /\ [][(pc = "outer" /\ innerResult \in HttpReasons \ {"quotaExceeded"}) =>
            IF attempt < 2
            THEN /\ outerSleeps' = Append(outerSleeps, 10 * (attempt + 1))
                 /\ attempt' = attempt + 1
                 /\ pc' = "chunk"
            ELSE /\ outerSleeps' = outerSleeps
                 /\ pc' = "failed"]_vars

\* C11: download_file makes at most 3 attempts; a failed 1st attempt is
\* followed by a sleep of 5 and a failed 2nd by a sleep of 10; the failed 3rd
\* attempt is followed by no sleep and by the return of False, which main
\* counts as a failure of this file; the process goes on.
C11_DownloadRetry ==
    /\ [](pc = "download" =>
            /\ dlAttempt <= 2
            /\ dlSleeps = SubSeq(<<5, 10>>, 1, dlAttempt))
    /\ [][(pc = "download" /\ pc' \in {"download", "loop"}) =>
            IF dlAttempt < 2
            THEN /\ dlSleeps' = Append(dlSleeps, 5 * (dlAttempt + 1))
                 /\ dlAttempt' = dlAttempt + 1
                 /\ pc' = "download"
            ELSE /\ dlSleeps' = dlSleeps
                 /\ pc' = "loop"
                 /\ failed_uploads' = failed_uploads + 1
                 /\ exitCode' = exitCode]_vars

\* download_file has returned False after three failed attempts and main has
\* moved on to the next candidate.
C11_Witness ==
    /\ pc = "loop"
    /\ idx = 2
    /\ downloadCalls = {mov_files[1]}
    /\ dlAttempt = 2
    /\ dlSleeps = <<5, 10>>
    /\ failed_uploads = 1
    /\ uploadCalls = {}

\* C12 as stated: an ended process has exit code 1 exactly when the client
\* initialisation failed or an upload hit the quota, and exit code 0 in every
\* other case; after a failed or empty listing nothing was downloaded,
\* uploaded or written to the ledger.
C12_ExitCodes ==
    RunEnded =>
        /\ exitCode \in {0, 1}
        /\ exitCode = 1 <=> (pc = "exited" /\ (quotaHit \/ mov_files = <<>>))
        /\ mov_files = <<>> =>
             /\ linkCalls \cup downloadCalls \cup uploadCalls = {}
             /\ ledger = ledger0

\* C13 as stated: whatever the ledger file holds, load_uploaded_videos
\* returns the empty set for a file that is absent, unparseable or of an
\* unexpected shape, and save_uploaded_video completes: once upload_video has
\* returned an id and the process is past the save, the ledger holds the
\* entry; the save never ends the process.
C13_LedgerCorruptionNotPropagated ==
    /\ (pc = "list" /\ ledger0.kind # "dict") => uploaded_files = {}
    /\ pc \notin {"record", "saving"} => \A f \in succeeded : HasEntry(ledger, f)

\* C14 as stated: when a process has been killed, at whatever step, the ledger
\* file still holds every entry it held when the run started, and it is not
\* left unparseable unless it was so before.
C14_CrashAtomicLedger ==
    pc = "killed" =>
        /\ \A f \in LedgerNames(ledger0) :
             /\ f \in LedgerNames(ledger)
             /\ ledger.videos[f] = ledger0.videos[f]
        /\ ledger.kind = "unparseable" => ledger0.kind = "unparseable"

\* C15 (as stated): at most one file created by this run is in the working
\* directory.
C15_OneLocalFile == Cardinality(disk \cap written) <= 1

\* The candidate the for loop is at, if it is at one.
Current == IF idx \in 1..Len(mov_files) THEN {cur} ELSE {}

\* C15 (amended): a file created by this run and still in the working
\* directory belongs to the candidate being processed, or to an earlier
\* candidate whose download failed, whose upload failed or whose deletion
\* failed; the file of a recorded upload is deleted before the next
\* candidate starts.
C15_OneLocalFileUnlessFailed ==
    \A f \in disk \cap written :
        \/ f \in Current
        \/ f \in downloadCalls \ uploadCalls
        \/ f \in uploadFailed
        \/ f \in removeFailed

\* The second candidate is being uploaded after the first one was recorded
\* and deleted, and only its file is on disk.
C15_Witness ==
    /\ pc = "chunk"
    /\ idx = 2
    /\ mov_files[1] \in succeeded \cap removed
    /\ disk \cap written = {cur}

\* The filename list a ledger file holds for save_uploaded_video.
FilesOf(file) == IF file.kind = "dict" THEN file.uploaded_files ELSE <<>>

\* The names with a video record in a ledger file.
VideosOf(file) == IF file.kind = "dict" THEN DOMAIN file.videos ELSE {}

\* The run had one candidate, the first attempt of its upload_video call
\* ended with rateLimitExceeded and the second one returned an id.
RateLimitedThenOk ==
    /\ pc = "done"
    /\ Cardinality(Candidates) = 1
    /\ rateLimitedFirst
    /\ attempt = 1
    /\ Candidates \subseteq succeeded

\* C16: a run with a single candidate whose first upload attempt is rate
\* limited and whose second attempt succeeds ends with exactly one new ledger
\* entry (that file's), one success and no failure counted, and the local
\* file gone; when os.remove fails the file stays, and the ledger entry and
\* the counts are the same.
C16_SuccessAfterRateLimit ==
    RateLimitedThenOk =>
        \A f \in Candidates :
            /\ ledger.kind = "dict"
            /\ ledger.uploaded_files = Append(FilesOf(ledger0), f)
            /\ DOMAIN ledger.videos = VideosOf(ledger0) \cup {f}
            /\ f \notin VideosOf(ledger0)
            /\ successful_uploads = 1
            /\ failed_uploads = 0
            /\ outerSleeps = <<UploadRetryDelay>>
            /\ f \in disk <=> f \in removeFailed
            /\ f \notin disk <=> f \in removed

\* Such a run has ended with the local file deleted.
C16_Witness ==
    /\ RateLimitedThenOk
    /\ Candidates \subseteq removed
    /\ Len(mov_files) = 2

\* C17: a chunk send that fails with an HttpError whose status is not 500,
\* 502, 503 or 504 ends the _resumable_upload call in that step with that
\* error: retry, error and the sleeps are unchanged, and no chunk is sent
\* again before upload_video has handled the error (a later chunk belongs to
\* a new call, which counts its sends from 0).
C17_NonRetriablePropagates ==
    /\ [][(pc = "chunk" /\ lastOutcome' \in HttpReasons) =>
            /\ pc' = "outer"
            /\ innerResult' = lastOutcome'
            /\ chunkSends' = chunkSends + 1
            /\ retry' = retry
            /\ error' = error
            /\ innerSleeps' = innerSleeps
            /\ UNCHANGED outerVars]_vars
    /\ [][(innerResult \in HttpReasons) => chunkSends' \in {chunkSends, 0}]_vars
    /\ [](innerResult \in HttpReasons => pc # "chunk")

\* A call that had retried twice has ended with a non-retriable error.
C17_Witness ==
    /\ pc = "outer"
    /\ innerResult = "other"
    /\ lastOutcome = "other"
    /\ retry = 2
    /\ chunkSends = 3
    /\ innerSleeps = <<2, 4>>

\* A chunk send that returns (status, None) changes neither retry nor the
\* sleeps of the call.
ProgressIsFree ==
    [][(pc = "chunk" /\ lastOutcome' = "progress" /\ chunkSends' = chunkSends + 1) =>
            /\ retry' = retry
            /\ innerSleeps' = innerSleeps]_vars

\* C18: during a _resumable_upload call retry equals the number of retriable
\* errors (5xx HttpError, transport error) of the call, a sleep happens only
\* in the step of a chunk send that failed with a retriable error, and a
\* chunk send that only reports progress neither sleeps nor increments
\* retry, also after an earlier error of the same call.
C18_InnerRetryAccounting ==
    /\ [](pc \in {"chunk", "outer"} => retry = retriableErrs)
    /\ [][(innerSleeps' # innerSleeps /\ innerSleeps' # <<>>) =>
            lastOutcome' \in {"e5xx", "transport"}]_vars
    /\ ProgressIsFree

\* C19: in an environment where every call returns or fails, a started run
\* ends (summary, sys.exit or an uncaught exception); download_file makes at
\* most 3 attempts and upload_video at most 3, and a _resumable_upload call
\* sees at most 4 retriable errors and has ended when it has seen 4.
C19_Termination ==
    /\ [](/\ dlAttempt <= 2
          /\ Len(dlSleeps) <= 2
          /\ attempt <= 2
          /\ Len(outerSleeps) <= 2
          /\ retriableErrs <= 4
          /\ retriableErrs = 4 => pc # "chunk")
    /\ Running ~> RunEnded

\* A run has ended after an upload_video call used its 3 attempts and the
\* last _resumable_upload call saw 4 retriable errors.
C19_Witness ==
    /\ pc = "done"
    /\ dlAttempt = 2
    /\ attempt = 2
    /\ retriableErrs = 4
    /\ uploadFailed # {}

\* The listed .mov files that the ledger did not hold when the run started.
CandidatesAtStart == {f \in Range(mov_files) : f \notin LedgerNames(ledger0)}

\* C20: at the summary every candidate has been counted once, as a success
\* or as a failure: the two counters add up to the number of candidates,
\* successful_uploads is the number of entries the run added to the ledger,
\* and the step that skips a file changes no counter.
C20_RunStatistics ==
    /\ [](pc = "done" =>
            /\ successful_uploads + failed_uploads = Cardinality(CandidatesAtStart)
            /\ successful_uploads = Cardinality(succeeded)
            /\ successful_uploads = Len(FilesOf(ledger)) - Len(FilesOf(ledger0))
            /\ failed_uploads = Cardinality(CandidatesAtStart \ succeeded))
    /\ [][(pc = "loop" /\ idx' = idx + 1) =>
            UNCHANGED <<successful_uploads, failed_uploads, ledger, callVars>>]_vars

\* The summary of a run that skipped one file and failed on the other.
C20_Witness ==
    /\ pc = "done"
    /\ Len(mov_files) = 2
    /\ Cardinality(CandidatesAtStart) = 1
    /\ failed_uploads = 1
    /\ uploadFailed # {}

\* C21 (as stated): in every state, those of a killed run included, a
\* candidate whose local file this run deleted has its entry in the ledger
\* file, and a candidate whose upload succeeded and has no entry in the
\* ledger file still has its local file.
C21_RecordBeforeCleanup ==
    /\ \A f \in removed : HasEntry(ledger, f)
    /\ \A f \in succeeded \cap written : ~HasEntry(ledger, f) => f \in disk

\* C22: a ledger file that holds an object lists in 'uploaded_files' exactly
\* the names that have a record in 'videos', and whatever the file holds,
\* load_uploaded_videos returns exactly the names with a recorded video id.
C22_LedgerConsistent ==
    /\ ledger.kind = "dict" =>
          Range(ledger.uploaded_files) = DOMAIN ledger.videos
    /\ load_uploaded_videos(ledger) = VideosOf(ledger)
    /\ pc = "saving" =>
          /\ Range(data.uploaded_files) = DOMAIN data.videos
          /\ load_uploaded_videos(data) = DOMAIN data.videos

\* Two save_uploaded_video calls of one run have taken the ledger from the
\* empty object to two entries.
C22_Witness ==
    /\ pc = "done"
    /\ ledger0 = DictFile({}, <<>>, NoVideos)
    /\ successful_uploads = 2
    /\ Len(ledger.uploaded_files) = 2
    /\ DOMAIN ledger.videos = {NameA, NameB}

====
